---- MODULE Spec2Model ----
(***************************************************************************)
(* Tool-call scheduling and streaming-resilience layer of the Gemini       *)
(* conversation agent: ToolCallGuard (cli/streamResilience.ts), the stream *)
(* event processor and the completed-tool merger (utils.ts), and the       *)
(* GeminiAgent orchestrator (agent/gemini/index.ts).                       *)
(***************************************************************************)
EXTENDS Integers, Sequences, FiniteSets, TLC

(***************************************************************************)
(* Bounds of the model.                                                    *)
(***************************************************************************)
\* callIds the guard operations are exercised with in SpecGuard
MaxGuardId == 3
\* turns (send() calls and continuations) of one agent
MaxTurns == 2
\* events one model stream yields before it ends
MaxStreamLen == 2
\* tool-call requests the model emits over the life of the agent
MaxCalls == 2
\* cap of the retry counter (the code's own budget is MAX_INVALID_STREAM_RETRIES)
RetryCap == 4
\* calls of one batch given to handleCompletedTools
MaxCompleted == 2
\* calls of one batch given to processGeminiFunctionCalls
MaxFunctionCalls == 2
\* events of the stream given to processGeminiStreamEvents on its own
MaxEvents == 3
\* invocations of the fallback-model handler
MaxFallbacks == 4
\* injectConversationHistory calls over the life of one agent
MaxInjections == 2
\* conversation ids, task objects made, and lookups of one id in flight
MaxConversations == 2
MaxTasks == 3
MaxLookups == 1
\* tool calls of the worker's batch, and confirmMessage calls of the UI
MaxTools == 2
MaxConfirms == 1

GuardIds == 1..MaxGuardId

(***************************************************************************)
(* Program constants.                                                      *)
(***************************************************************************)
MAX_INVALID_STREAM_RETRIES == 2

VARIABLES
  guard,           \* globalToolCallGuard: [protectedCallIds, completedCallIds]
  guardTrace,      \* the last three guard operations: <<[op, id, pre]>>, newest last
  ctrls,           \* AbortControllers created so far: ctrls[i] = signal.aborted
  abortController, \* this.abortController: index into ctrls, 0 = null
  turns,           \* one record per send() / continuation, indexed by msg_id
  errorPending,    \* the last error event given to onStreamEvent has no finish after it yet
  streamReqs,      \* geminiClient.sendMessageStream calls, oldest first
  promptCount,     \* utils.ts promptCount
  history,         \* turns appended with geminiClient.addHistory
  callCount,       \* tool-call requests emitted by the model so far
  stopMissed,      \* turns in flight at a stop() that left their signal alone
  historyPrefix,   \* this.historyPrefix: 0 = null, k = the prefix of the k-th injection
  historyUsedOnce, \* this.historyUsedOnce
  merger,          \* one handleCompletedTools call: its batch and what it did
  dispatch,        \* one processGeminiFunctionCalls call: its batch, position and effects
  processor,       \* one processGeminiStreamEvents call: its stream, position and effects
  params,          \* normalizeToolParams applied to one tool name and argument map
  fallback,        \* fallbackModelHandler invocations and the key manager's answers
  workerManage,    \* WorkerManage: taskList, the tasks made and the lookups in flight
  agentManager     \* GeminiAgentManager: the worker's tool calls and the messages handled

guardVars == <<guard, guardTrace>>
prefixVars == <<historyPrefix, historyUsedOnce>>
agentVars == <<ctrls, abortController, turns, errorPending, streamReqs, promptCount,
               history, callCount, stopMissed, historyPrefix, historyUsedOnce>>
procVars == <<workerManage, agentManager>>
utilVars == <<merger, dispatch, processor, params, fallback, workerManage, agentManager>>
vars == <<guard, guardTrace, ctrls, abortController, turns, errorPending, streamReqs,
          promptCount, history, callCount, stopMissed, historyPrefix, historyUsedOnce,
          merger, dispatch, processor, params, fallback, workerManage, agentManager>>

\* a function of utils.ts or config.ts that nothing has called
Idle == [pc |-> "idle"]

InitProc ==
  /\ workerManage = Idle
  /\ agentManager = Idle

InitUtil ==
  /\ merger = Idle
  /\ dispatch = Idle
  /\ processor = Idle
  /\ params = Idle
  /\ fallback = Idle
  /\ InitProc

(***************************************************************************)
(* ToolCallGuard (streamResilience.ts).  The two Set<string> fields are    *)
(* the two fields of the record g; every method is an operator from the    *)
(* guard before the call to the guard after it.                            *)
(***************************************************************************)
NewToolCallGuard == [protectedCallIds |-> {}, completedCallIds |-> {}]

protect(g, callId) ==
  [g EXCEPT !.protectedCallIds = @ \cup {callId}]

isProtected(g, callId) == callId \in g.protectedCallIds

\* complete() that marks the call completed but forgets to drop its protection
complete_KeepsProtection(g, callId) ==
  [g EXCEPT !.completedCallIds = @ \cup {callId}]

complete(g, callId) ==
  [g EXCEPT !.protectedCallIds = @ \ {callId},
            !.completedCallIds = @ \cup {callId}]

isCompleted(g, callId) == callId \in g.completedCallIds

\* unprotect() that also records the call as completed
unprotect_MarksCompleted(g, callId) ==
  [g EXCEPT !.protectedCallIds = @ \ {callId},
            !.completedCallIds = @ \cup {callId}]

unprotect(g, callId) ==
  [g EXCEPT !.protectedCallIds = @ \ {callId}]

clear(g) ==
  [g EXCEPT !.protectedCallIds = {}, !.completedCallIds = {}]

getProtectedCallIds(g) == g.protectedCallIds

(***************************************************************************)
(* SpecGuard: the guard driven by arbitrary callers.                       *)
(***************************************************************************)
Remember(op, id) ==
  LET entry == [op |-> op, id |-> id, pre |-> guard]
      all == Append(guardTrace, entry)
  IN  guardTrace' = IF Len(all) > 3 THEN Tail(all) ELSE all

GuardProtect(id) ==
  /\ guard' = protect(guard, id)
  /\ Remember("protect", id)
  /\ UNCHANGED <<agentVars, utilVars>>

GuardComplete(id) ==
  /\ guard' = complete(guard, id)
  /\ Remember("complete", id)
  /\ UNCHANGED <<agentVars, utilVars>>

GuardUnprotect(id) ==
  /\ guard' = unprotect(guard, id)
  /\ Remember("unprotect", id)
  /\ UNCHANGED <<agentVars, utilVars>>

GuardClear ==
  /\ guard' = clear(guard)
  /\ Remember("clear", 0)
  /\ UNCHANGED <<agentVars, utilVars>>

\* a GeminiAgent after its constructor ran and its bootstrap promise resolved
InitAgent ==
  /\ ctrls = <<>>
  /\ abortController = 0
  /\ turns = <<>>
  /\ errorPending = FALSE
  /\ streamReqs = <<>>
  /\ promptCount = 0
  /\ history = <<>>
  /\ callCount = 0
  /\ stopMissed = {}
  /\ historyPrefix = 0
  /\ historyUsedOnce = FALSE

InitGuard ==
  /\ guard = NewToolCallGuard
  /\ guardTrace = <<>>
  /\ InitAgent
  /\ InitUtil

NextGuard ==
  \/ \E id \in GuardIds : GuardProtect(id)
  \/ \E id \in GuardIds : GuardComplete(id)
  \/ \E id \in GuardIds : GuardUnprotect(id)
  \/ GuardClear

SpecGuard == InitGuard /\ [][NextGuard]_vars

(***************************************************************************)
(* Claims about the guard, checked under SpecGuard.                        *)
(***************************************************************************)
LastOps(n) == SubSeq(guardTrace, Len(guardTrace) - n + 1, Len(guardTrace))

\* the last n operations are exactly ops, all on the same callId
EndsWith(ops) ==
  /\ Len(guardTrace) >= Len(ops)
  /\ \A i \in 1..Len(ops) :
       /\ LastOps(Len(ops))[i].op = ops[i]
       /\ LastOps(Len(ops))[i].id = LastOps(Len(ops))[1].id

\* C8: in every reachable guard state no callId is in both the protected set
\* and the completed set.
C8_GuardSetsDisjoint ==
  guard.protectedCallIds \cap guard.completedCallIds = {}

\* C9: protect(id) immediately followed by complete(id) leaves
\* isProtected(id) false and isCompleted(id) true, and leaves the membership
\* of every other callId in both sets as it was before the two calls.
C9_ProtectThenComplete ==
  EndsWith(<<"protect", "complete">>) =>
    LET id == LastOps(2)[1].id
        pre == LastOps(2)[1].pre
    IN  /\ ~isProtected(guard, id)
        /\ isCompleted(guard, id)
        /\ guard.protectedCallIds \ {id} = pre.protectedCallIds \ {id}
        /\ guard.completedCallIds \ {id} = pre.completedCallIds \ {id}

\* reached: protect(id); complete(id) from a state where id was in neither
\* set while other callIds were protected and completed
C9_Witness ==
  /\ EndsWith(<<"protect", "complete">>)
  /\ LET id == LastOps(2)[1].id
         pre == LastOps(2)[1].pre
     IN  /\ id \notin pre.protectedCallIds \cup pre.completedCallIds
         /\ pre.protectedCallIds # {}
         /\ pre.completedCallIds # {}
         /\ isCompleted(guard, id)

\* C10: from a state where id is not completed, protect(id) then unprotect(id)
\* leaves id neither protected nor completed and the completed set unchanged,
\* and a protect(id) after that makes id protected again.
C10_UnprotectNonTerminal ==
  /\ EndsWith(<<"protect", "unprotect">>) =>
       LET id == LastOps(2)[1].id
           pre == LastOps(2)[1].pre
       IN  id \notin pre.completedCallIds =>
             /\ ~isProtected(guard, id)
             /\ ~isCompleted(guard, id)
             /\ guard.completedCallIds = pre.completedCallIds
  /\ EndsWith(<<"protect", "unprotect", "protect">>) =>
       LET id == LastOps(3)[1].id
           pre == LastOps(3)[1].pre
       IN  id \notin pre.completedCallIds =>
             /\ isProtected(guard, id)
             /\ ~isCompleted(guard, id)
             /\ guard.completedCallIds = pre.completedCallIds

\* reached: protect(id); unprotect(id); protect(id) with id never completed
\* and another callId completed before
C10_Witness ==
  /\ EndsWith(<<"protect", "unprotect", "protect">>)
  /\ LET id == LastOps(3)[1].id
         pre == LastOps(3)[1].pre
     IN  /\ id \notin pre.completedCallIds
         /\ pre.completedCallIds # {}
         /\ isProtected(guard, id)

(***************************************************************************)
(* utils.ts: the stream event processor.                                   *)
(*                                                                         *)
(* Stream events are named by the string value of their GeminiEventType.   *)
(* "invalid_stream" and "retry" are members of the core library's enum     *)
(* that the switch of processGeminiStreamEvents does not list.             *)
(***************************************************************************)
ForwardedTypes == {"thought", "content", "tool_call_request", "error", "finished"}

SwallowedTypes == {"chat_compressed", "user_cancelled", "tool_call_confirmation",
                   "tool_call_response", "max_session_turns", "loop_detected"}

UnlistedTypes == {"invalid_stream", "retry"}

StreamEventTypes == ForwardedTypes \cup SwallowedTypes \cup UnlistedTypes

\* a switch whose default arm forwards the event instead of dropping it
SinkInvoked_ForwardsUnlisted(type) ==
  type \notin SwallowedTypes

\* the switch of processGeminiStreamEvents: the sink is invoked with the event
\* for the five forwarded cases, and not at all for the swallowed cases and
\* for the default arm (console.warn only)
SinkInvoked(type) ==
  type \in ForwardedTypes

\* a loop that an Error event ends
IterationGoesOn_ErrorEnds(type) == type # "error"

\* every arm of the switch ends with a break of the switch: none leaves the
\* for-await loop
IterationGoesOn(type) == TRUE

\* the data given to the sink: the event's value, for Error the formatted error
SinkData(type) == IF type = "error" THEN "parseAndFormatApiError" ELSE "value"

\* line 66: the status of the result, whatever the stream held
ReturnedStatus(sawUserCancelled) == "Completed"

\* capturedUsageMetadata after the event: only Finished assigns it
CapturedUsage(usage, type) ==
  IF type = "finished" THEN "meta" ELSE usage

(***************************************************************************)
(* utils.ts: handleCompletedTools.                                         *)
(*                                                                         *)
(* A part is [k, v]: k = "fr" a functionResponse object, "text" a {text}   *)
(* object, "str" a raw string.  responseParts is [k |-> "undef"], a single *)
(* part [k |-> "one", p] or an array [k |-> "arr", ps].                    *)
(***************************************************************************)
isTerminalState(status) == status \in {"success", "error", "cancelled"}

RECURSIVE FlatMapParts(_)
\* geminiTools.flatMap((toolCall) => toolCall.response.responseParts)
FlatMapParts(tools) ==
  IF tools = <<>> THEN <<>>
  ELSE LET rp == Head(tools).responseParts
       IN  (IF rp.k = "arr" THEN rp.ps ELSE <<rp.p>>) \o FlatMapParts(Tail(tools))

RECURSIVE mergePartListUnions_WrapsStrings(_)
\* a merge that wraps raw strings as {text}, as the history path does
mergePartListUnions_WrapsStrings(tools) ==
  IF tools = <<>> THEN <<>>
  ELSE LET rp == Head(tools).responseParts
           items == IF rp.k = "arr" THEN rp.ps ELSE <<rp.p>>
       IN  [i \in 1..Len(items) |->
              IF items[i].k = "str" THEN [k |-> "text", v |-> items[i].v] ELSE items[i]]
           \o mergePartListUnions_WrapsStrings(Tail(tools))

\* mergePartListUnions has the same one-level flattening, items kept as they are
mergePartListUnions(tools) == FlatMapParts(tools)

\* parts of one addHistory call: a string is wrapped as {text}
HistoryParts(response) ==
  IF response.k = "str" THEN <<[k |-> "text", v |-> response.v]>> ELSE <<response>>

\* a merger that refreshes the memory once per successful save_memory call
performMemoryRefresh_PerCall(newSuccessfulMemorySaves) ==
  Len(newSuccessfulMemorySaves)

\* lines 162-169: the number of performMemoryRefresh() calls
performMemoryRefresh(newSuccessfulMemorySaves) ==
  IF Len(newSuccessfulMemorySaves) > 0 THEN 1 ELSE 0

handleCompletedTools(completedToolCallsFromScheduler, hasClient) ==
  LET ready == SelectSeq(completedToolCallsFromScheduler,
                 LAMBDA tc : isTerminalState(tc.status) /\ tc.responseParts.k # "undef")
      newSuccessfulMemorySaves ==
        SelectSeq(ready, LAMBDA t : t.name = "save_memory" /\ t.status = "success")
      geminiTools == SelectSeq(ready, LAMBDA t : ~t.isClientInitiated)
      allToolsCancelled ==
        \A i \in 1..Len(geminiTools) : geminiTools[i].status = "cancelled"
      responsesToAdd == FlatMapParts(geminiTools)
      refresh == performMemoryRefresh(newSuccessfulMemorySaves)
  IN  IF Len(geminiTools) = 0
        THEN [ret |-> "undefined", parts |-> <<>>, added |-> <<>>, refresh |-> refresh]
      ELSE IF allToolsCancelled
        THEN [ret |-> "undefined", parts |-> <<>>,
              added |-> IF hasClient
                          THEN [i \in 1..Len(responsesToAdd) |->
                                  [role |-> "user", parts |-> HistoryParts(responsesToAdd[i])]]
                          ELSE <<>>,
              refresh |-> refresh]
      ELSE [ret |-> "parts", parts |-> mergePartListUnions(geminiTools),
            added |-> <<>>, refresh |-> refresh]

(***************************************************************************)
(* agent/gemini/index.ts: GeminiAgent.                                     *)
(*                                                                         *)
(* A turn is one submitQuery call with the handleMessage promise chain it  *)
(* starts.  Its record holds the locals of the running handleMessage       *)
(* invocation (retryCount, invalidStreamDetected, toolCallRequests), the   *)
(* processor's capturedUsageMetadata (usage), the batch the scheduler was  *)
(* given (batch[i] is the status of toolCallRequests[i] once scheduled),   *)
(* whether onAllToolCallsComplete has fired for it (notified), and the     *)
(* onStreamEvent calls made while processing it (events, oldest first).    *)
(* signalled records that the turn's first stream yielded a retryable      *)
(* invalid_stream event, stoppedAt the length of events when stop() first  *)
(* aborted the turn's signal while its stream was being consumed (-1:      *)
(* never), sawUserCancelled that the stream being consumed has yielded a   *)
(* UserCancelled event, status the status of the result the processor      *)
(* returned for the turn's last stream, prefix the history prefix that     *)
(* send() prepended to the turn's message (0: none), injected the value of *)
(* this.historyPrefix when send() ran, query the parts submitQuery is      *)
(* given for a continuation (<<>> stands for the user's message),          *)
(* scheduleCalls the scheduler.schedule calls of the turn: the requests    *)
(* passed, the retry attempt that made the call and whether every request  *)
(* was protected in the guard when it was made.                            *)
(***************************************************************************)
AgentStreamTypes ==
  {"content", "tool_call_request", "error", "finished", "invalid_stream", "user_cancelled"}

NoPrompt == -1

NewTurn(ctrl, isContinuation, origin) ==
  [pc |-> "atCommand", ctrl |-> ctrl, prompt_id |-> NoPrompt,
   isContinuation |-> isContinuation, origin |-> origin,
   retryCount |-> 0, invalidStreamDetected |-> FALSE, toolCallRequests |-> <<>>,
   emitted |-> 0, usage |-> "none", batch |-> <<>>, notified |-> FALSE,
   events |-> <<>>, signalled |-> FALSE, stoppedAt |-> -1,
   sawUserCancelled |-> FALSE, status |-> "none", prefix |-> 0, injected |-> 0,
   query |-> <<>>, scheduleCalls |-> <<>>]

\* an onStreamEvent call; msg_id 0 is a fresh uuid()
Ev(type, msg_id, data) == [type |-> type, msg_id |-> msg_id, data |-> data]

RECURSIVE PendingAfter(_, _)
\* errorPending after the events evs were emitted
PendingAfter(pending, evs) ==
  IF evs = <<>> THEN pending
  ELSE PendingAfter(IF Head(evs).type = "error" THEN TRUE
                    ELSE IF Head(evs).type = "finish" THEN FALSE
                    ELSE pending,
                    Tail(evs))

\* tool of a request, by callId: every second request is a browser navigation
ToolName(callId) == IF callId % 2 = 0 THEN "navigate_page" ELSE "read_file"

isNavigationTool(toolName) == toolName = "navigate_page"

Aborted(m) == ctrls[turns[m].ctrl]

\* a stream being consumed (or about to be re-requested), or a tool batch
\* that was scheduled and is not merged yet
InFlight(m) ==
  \/ turns[m].pc \in {"streaming", "retryDelay", "scheduling"}
  \/ turns[m].batch # <<>> /\ ~turns[m].notified

\* the scheduler has seen the last call of a batch end and is about to report
\* the batch: it fires onAllToolCallsComplete in the task of that last status
\* change, so nothing else of the agent runs in between
CompletionDue ==
  \E m \in 1..Len(turns) :
    /\ turns[m].batch # <<>>
    /\ ~turns[m].notified
    /\ \A i \in 1..Len(turns[m].batch) : isTerminalState(turns[m].batch[i])

\* a retry condition that lost its detection and budget conjuncts
ShouldRetry_Unbounded(invalidStreamDetected, retryCount, query, aborted) ==
  query /\ ~aborted

\* handleMessage, line 316: the auto-retry condition
ShouldRetry(invalidStreamDetected, retryCount, query, aborted) ==
  invalidStreamDetected /\ retryCount < MAX_INVALID_STREAM_RETRIES /\ query /\ ~aborted

\* handleMessage, lines 288-313: the sink given to processGeminiStreamEvents.
\* Yields the locals after the call, the UI events emitted and the callId
\* protected (0 = none).
handleMessageSink(t, m, type, retryable, callId) ==
  IF type = "tool_call_request"
    THEN [turn |-> [t EXCEPT !.toolCallRequests = Append(@, callId)],
          events |-> <<>>, protectId |-> callId]
  ELSE IF type = "invalid_stream"
    THEN [turn |-> [t EXCEPT !.invalidStreamDetected = TRUE],
          events |-> IF retryable /\ t.retryCount < MAX_INVALID_STREAM_RETRIES
                       THEN <<Ev("error", m, "retrying")>> ELSE <<>>,
          protectId |-> 0]
  ELSE [turn |-> t, events |-> <<Ev(type, m, "")>>, protectId |-> 0]

\* a loop that releases the first request only
UnprotectAll_FirstOnly(g, reqs) ==
  IF reqs = <<>> THEN g ELSE unprotect(g, Head(reqs))

RECURSIVE UnprotectAll(_, _)
\* handleMessage, lines 341-343
UnprotectAll(g, reqs) ==
  IF reqs = <<>> THEN g ELSE UnprotectAll(unprotect(g, Head(reqs)), Tail(reqs))

RECURSIVE emitPreviewForNavigationTools(_)
\* emitPreviewForNavigationTools: one preview_open per navigation request
emitPreviewForNavigationTools(reqs) ==
  IF reqs = <<>> THEN <<>>
  ELSE (IF isNavigationTool(ToolName(Head(reqs)))
          THEN <<Ev("preview_open", 0, "")>> ELSE <<>>)
       \o emitPreviewForNavigationTools(Tail(reqs))

\* a submitQuery that takes a fresh prompt id and counts a new prompt for
\* every call, continuation or not
submitQuery_AlwaysNewPrompt(t, m, optPrompt, throws, signalAborted, originAborted) ==
  IF throws
    THEN [turn |-> [t EXCEPT !.pc = "failed", !.prompt_id = promptCount,
                             !.events = Append(@, Ev("error", m, "submitQuery"))],
          reqs |-> <<>>, promptCount |-> promptCount + 1]
  ELSE [turn |-> [t EXCEPT !.pc = "streaming", !.prompt_id = promptCount,
                           !.events = Append(@, Ev("start", m, ""))],
        reqs |-> <<[turn |-> m, retry |-> 0, prompt_id |-> promptCount,
                    aborted |-> signalAborted, origin |-> t.origin,
                    originAborted |-> originAborted, query |-> t.query]>>,
        promptCount |-> promptCount + 1]

\* submitQuery: the turn record (with the events emitted), the stream request
\* and the prompt counter after the call.  throws: sendMessageStream (or the
\* start emit) throws synchronously and the catch of lines 463-469 runs.
submitQuery(t, m, optPrompt, throws, signalAborted, originAborted) ==
  LET prompt_id == IF optPrompt # NoPrompt THEN optPrompt ELSE promptCount
      count == IF t.isContinuation THEN promptCount ELSE promptCount + 1
  IN  IF throws
        THEN [turn |-> [t EXCEPT !.pc = "failed", !.prompt_id = prompt_id,
                                 !.events = Append(@, Ev("error", m, "submitQuery"))],
              reqs |-> <<>>, promptCount |-> count]
      ELSE [turn |-> [t EXCEPT !.pc = "streaming", !.prompt_id = prompt_id,
                               !.events = Append(@, Ev("start", m, ""))],
            reqs |-> <<[turn |-> m, retry |-> 0, prompt_id |-> prompt_id,
                        aborted |-> signalAborted, origin |-> t.origin,
                        originAborted |-> originAborted, query |-> t.query]>>,
            promptCount |-> count]

\* the turns and errorPending after turn m became t, having emitted evs
Emit(m, t, evs) ==
  /\ turns' = [turns EXCEPT ![m] = [t EXCEPT !.events = @ \o evs]]
  /\ errorPending' = PendingAfter(errorPending, evs)

\* a test that forgets the used-once flag
PrependsPrefix_Always(prefix, usedOnce) == prefix # 0

\* send(), line 489: the one-time prefix is prepended to this message
PrependsPrefix(prefix, usedOnce) == prefix # 0 /\ ~usedOnce

\* send(), up to the await of handleAtCommand: the new AbortController and
\* the one-time history prefix (lines 474-498)
send ==
  /\ ~CompletionDue
  /\ Len(turns) < MaxTurns
  /\ ctrls' = Append(ctrls, FALSE)
  /\ abortController' = Len(ctrls) + 1
  /\ turns' = Append(turns,
       [NewTurn(Len(ctrls) + 1, FALSE, 0) EXCEPT
          !.prefix = IF PrependsPrefix(historyPrefix, historyUsedOnce)
                       THEN historyPrefix ELSE 0,
          !.injected = historyPrefix])
  /\ historyUsedOnce' = (historyUsedOnce \/ PrependsPrefix(historyPrefix, historyUsedOnce))
  /\ UNCHANGED <<utilVars, historyPrefix>>
  /\ UNCHANGED <<guardVars, errorPending, streamReqs, promptCount, history,
                 callCount, stopMissed>>

\* send(), after handleAtCommand resolved: the early return of lines 522-546
\* or submitQuery
sendAfterAtCommand(m, outcome, throws) ==
  /\ ~CompletionDue
  /\ turns[m].pc = "atCommand"
  /\ IF outcome # "proceed" \/ Aborted(m)
       THEN /\ ~throws
            /\ Emit(m, [turns[m] EXCEPT !.pc = "done"],
                    (IF outcome = "atError" \/ ~Aborted(m)
                       THEN <<Ev("error", m, "atCommand")>> ELSE <<>>)
                    \o <<Ev("finish", m, "null")>>)
            /\ UNCHANGED <<streamReqs, promptCount>>
       ELSE LET r == submitQuery(turns[m], m, NoPrompt, throws, Aborted(m), FALSE)
            IN  /\ turns' = [turns EXCEPT ![m] = r.turn]
                /\ errorPending' = (throws \/ errorPending)
                /\ streamReqs' = streamReqs \o r.reqs
                /\ promptCount' = r.promptCount
  /\ UNCHANGED <<utilVars, prefixVars>>
  /\ UNCHANGED <<guardVars, ctrls, abortController, history, callCount, stopMissed>>

\* one iteration of the for-await loop of processGeminiStreamEvents with the
\* sink of handleMessage.  The model's stream yields nothing but UserCancelled
\* once its abort signal is aborted.
streamEvent(m, type, retryable) ==
  /\ ~CompletionDue
  /\ turns[m].pc = "streaming"
  /\ turns[m].emitted < MaxStreamLen
  /\ Aborted(m) => type = "user_cancelled"
  /\ type = "tool_call_request" => callCount < MaxCalls
  /\ retryable => type = "invalid_stream"
  /\ LET t == [turns[m] EXCEPT
                 !.emitted = @ + 1,
                 !.sawUserCancelled = @ \/ type = "user_cancelled",
                 !.signalled = @ \/ (type = "invalid_stream" /\ retryable
                                       /\ turns[m].retryCount = 0)]
         r == IF SinkInvoked(type)
                THEN handleMessageSink(t, m, type, retryable, callCount + 1)
                ELSE [turn |-> t, events |-> <<>>, protectId |-> 0]
     IN  /\ Emit(m, [r.turn EXCEPT !.usage = CapturedUsage(@, type)], r.events)
         /\ guard' = IF r.protectId # 0 THEN protect(guard, r.protectId) ELSE guard
         /\ callCount' = IF type = "tool_call_request" THEN callCount + 1 ELSE callCount
  /\ UNCHANGED <<utilVars, prefixVars>>
  /\ UNCHANGED <<guardTrace, ctrls, abortController, streamReqs, promptCount,
                 history, stopMissed>>

\* the catch of handleMessage (lines 339-353) followed by the then of
\* submitQuery (lines 441-447), which emits finish with the undefined usage
CatchAndFinish(m, t, before) ==
  /\ guard' = UnprotectAll(guard, t.toolCallRequests)
  /\ Emit(m, [t EXCEPT !.pc = "done", !.usage = "none"],
          before \o <<Ev("error", m, "thrown"), Ev("finish", m, "none")>>)

\* the stream's iterator rejects
streamThrows(m) ==
  /\ ~CompletionDue
  /\ turns[m].pc = "streaming"
  /\ CatchAndFinish(m, turns[m], <<>>)
  /\ UNCHANGED <<utilVars, prefixVars>>
  /\ UNCHANGED <<guardTrace, ctrls, abortController, streamReqs, promptCount,
                 history, callCount, stopMissed>>

\* a test that schedules whatever the pass collected, even nothing
SchedulesBatch_Always(toolCallRequests) == TRUE

\* handleMessage, line 325: the pass collected requests to schedule
SchedulesBatch(toolCallRequests) == Len(toolCallRequests) > 0

\* the stream is exhausted: the then of handleMessage (lines 314-338) up to
\* its first await, and the then of submitQuery when nothing is awaited.
\* scheduleOk = FALSE: scheduler.schedule throws.  The scheduler registers
\* the calls (cancelled at once under an aborted signal) and reports them
\* with onToolCallsUpdate.
streamExhausted(m, scheduleOk) ==
  /\ ~CompletionDue
  /\ turns[m].pc = "streaming"
  /\ LET t == [turns[m] EXCEPT !.status = ReturnedStatus(turns[m].sawUserCancelled)]
     IN  IF ShouldRetry(t.invalidStreamDetected, t.retryCount, TRUE, Aborted(m))
           THEN /\ scheduleOk
                /\ turns' = [turns EXCEPT ![m] = [t EXCEPT !.pc = "retryDelay"]]
                /\ UNCHANGED <<guard, errorPending>>
         ELSE IF SchedulesBatch(t.toolCallRequests)
           THEN LET call == [reqs |-> t.toolCallRequests, retry |-> t.retryCount,
                             allProtected |->
                               \A i \in 1..Len(t.toolCallRequests) :
                                  isProtected(guard, t.toolCallRequests[i])]
                    u == [t EXCEPT !.scheduleCalls = Append(@, call)]
                IN  IF scheduleOk
                      THEN /\ Emit(m, [u EXCEPT
                                    !.pc = "scheduling",
                                    !.batch = [i \in 1..Len(t.toolCallRequests) |->
                                                 IF Aborted(m) THEN "cancelled" ELSE "scheduled"]],
                                 emitPreviewForNavigationTools(t.toolCallRequests)
                                   \o <<Ev("tool_group", 0, "")>>)
                           /\ UNCHANGED guard
                      ELSE CatchAndFinish(m, u, emitPreviewForNavigationTools(t.toolCallRequests))
         ELSE /\ scheduleOk
              /\ Emit(m, [t EXCEPT !.pc = "done"], <<Ev("finish", m, t.usage)>>)
              /\ UNCHANGED guard
  /\ UNCHANGED <<utilVars, prefixVars>>
  /\ UNCHANGED <<guardTrace, ctrls, abortController, streamReqs, promptCount,
                 history, callCount, stopMissed>>

\* handleMessage resumes after an await: after the retry delay it requests a
\* fresh stream and runs a new handleMessage (lines 318-319); after
\* scheduler.schedule resolved it returns and submitQuery emits finish
handleMessageResume(m) ==
  /\ ~CompletionDue
  /\ turns[m].pc \in {"retryDelay", "scheduling"}
  /\ LET t == turns[m]
     IN  IF t.pc = "retryDelay"
           THEN /\ t.retryCount < RetryCap
                /\ streamReqs' = Append(streamReqs,
                     [turn |-> m, retry |-> t.retryCount + 1, prompt_id |-> t.prompt_id,
                      aborted |-> Aborted(m), origin |-> t.origin,
                      originAborted |-> FALSE, query |-> t.query])
                /\ turns' = [turns EXCEPT
                     ![m].pc = "streaming", ![m].retryCount = @ + 1,
                     ![m].invalidStreamDetected = FALSE, ![m].toolCallRequests = <<>>,
                     ![m].emitted = 0, ![m].usage = "none",
                     ![m].sawUserCancelled = FALSE, ![m].status = "none"]
                /\ UNCHANGED errorPending
           ELSE /\ Emit(m, [t EXCEPT !.pc = "done"], <<Ev("finish", m, t.usage)>>)
                /\ UNCHANGED streamReqs
  /\ UNCHANGED <<utilVars, prefixVars>>
  /\ UNCHANGED <<guardVars, ctrls, abortController, promptCount, history,
                 callCount, stopMissed>>

\* the scheduler moves call i of the batch to a terminal status and fires
\* onToolCallsUpdate (lines 249-273).  A call that ends after the batch's
\* signal was aborted ends cancelled.
onToolCallsUpdate(m, i, status) ==
  /\ ~CompletionDue
  /\ i \in 1..Len(turns[m].batch)
  /\ turns[m].batch[i] = "scheduled"
  /\ isTerminalState(status)
  /\ Aborted(m) => status = "cancelled"
  /\ Emit(m, [turns[m] EXCEPT !.batch[i] = status], <<Ev("tool_group", 0, "")>>)
  /\ UNCHANGED <<utilVars, prefixVars>>
  /\ UNCHANGED <<guardVars, ctrls, abortController, streamReqs, promptCount,
                 history, callCount, stopMissed>>

\* the calls of turn m's batch as the scheduler reports them
CompletedToolCalls(m) ==
  [i \in 1..Len(turns[m].batch) |->
     [callId |-> turns[m].toolCallRequests[i],
      name |-> ToolName(turns[m].toolCallRequests[i]),
      isClientInitiated |-> FALSE,
      prompt_id |-> turns[m].prompt_id,
      status |-> turns[m].batch[i],
      responseParts |-> [k |-> "arr",
                         ps |-> <<[k |-> "fr", v |-> turns[m].toolCallRequests[i]]>>]]]

\* the scheduler fires onAllToolCallsComplete (lines 212-248) for turn m's
\* batch.  handleCompletedTools returning undefined makes response.length
\* throw, and the catch emits an error event.  Otherwise the merged parts are
\* submitted as a continuation under a new AbortController.
onAllToolCallsComplete(m, throws) ==
  /\ turns[m].batch # <<>>
  /\ ~turns[m].notified
  /\ \A i \in 1..Len(turns[m].batch) : isTerminalState(turns[m].batch[i])
  /\ LET r == handleCompletedTools(CompletedToolCalls(m), TRUE)
         n == Len(turns) + 1
     IN  /\ history' = history \o r.added
         /\ IF r.ret = "undefined"
              THEN /\ ~throws
                   /\ Emit(m, [turns[m] EXCEPT !.notified = TRUE], <<Ev("error", 0, "handleCompletedTools")>>)
                   /\ UNCHANGED <<ctrls, abortController, streamReqs, promptCount>>
            ELSE IF Len(r.parts) > 0
              THEN /\ Len(turns) < MaxTurns
                   /\ ctrls' = Append(ctrls, FALSE)
                   /\ abortController' = Len(ctrls) + 1
                   /\ LET q == submitQuery([NewTurn(Len(ctrls) + 1, TRUE, m) EXCEPT
                                              !.query = r.parts], n,
                                           CompletedToolCalls(m)[1].prompt_id, throws,
                                           FALSE, Aborted(m))
                      IN  /\ turns' = Append([turns EXCEPT ![m].notified = TRUE], q.turn)
                          /\ errorPending' = (throws \/ errorPending)
                          /\ streamReqs' = streamReqs \o q.reqs
                          /\ promptCount' = q.promptCount
            ELSE /\ ~throws
                 /\ turns' = [turns EXCEPT ![m].notified = TRUE]
                 /\ UNCHANGED <<ctrls, abortController, errorPending, streamReqs, promptCount>>
  /\ UNCHANGED <<utilVars, prefixVars>>
  /\ UNCHANGED <<guardVars, callCount, stopMissed>>

\* stop(): aborts the controller createAbortController made last
stop ==
  /\ ~CompletionDue
  /\ abortController # 0
  /\ ctrls' = [ctrls EXCEPT ![abortController] = TRUE]
  /\ turns' = [m \in 1..Len(turns) |->
                 IF /\ turns[m].ctrl = abortController
                    /\ ~ctrls[abortController]
                    /\ turns[m].pc = "streaming"
                   THEN [turns[m] EXCEPT !.stoppedAt = Len(turns[m].events)]
                   ELSE turns[m]]
  /\ stopMissed' = stopMissed \cup
       {m \in 1..Len(turns) :
          /\ turns[m].pc \in {"streaming", "retryDelay", "scheduling"}
          /\ turns[m].ctrl # abortController
          /\ ~ctrls[turns[m].ctrl]}
  /\ UNCHANGED <<utilVars, prefixVars>>
  /\ UNCHANGED <<guardVars, abortController, errorPending, streamReqs, promptCount,
                 history, callCount>>

Init ==
  /\ guard = NewToolCallGuard
  /\ guardTrace = <<>>
  /\ InitAgent
  /\ InitUtil

Next ==
  \/ send
  \/ \E m \in 1..Len(turns), outcome \in {"proceed", "atError", "declined"},
        throws \in BOOLEAN : sendAfterAtCommand(m, outcome, throws)
  \/ \E m \in 1..Len(turns), type \in AgentStreamTypes, retryable \in BOOLEAN :
        streamEvent(m, type, retryable)
  \/ \E m \in 1..Len(turns) : streamThrows(m)
  \/ \E m \in 1..Len(turns), scheduleOk \in BOOLEAN : streamExhausted(m, scheduleOk)
  \/ \E m \in 1..Len(turns) : handleMessageResume(m)
  \/ \E m \in 1..Len(turns), i \in 1..MaxCalls, status \in {"success", "error", "cancelled"} :
        onToolCallsUpdate(m, i, status)
  \/ \E m \in 1..Len(turns), throws \in BOOLEAN : onAllToolCallsComplete(m, throws)
  \/ stop

Spec == Init /\ [][Next]_vars

\* one turn of the agent on its own: a single send(), no continuation
NextOneTurn ==
  \/ send /\ Len(turns') <= 1
  \/ \E outcome \in {"proceed", "atError", "declined"}, throws \in BOOLEAN :
        Len(turns) = 1 /\ sendAfterAtCommand(1, outcome, throws)
  \/ \E type \in AgentStreamTypes, retryable \in BOOLEAN :
        Len(turns) = 1 /\ streamEvent(1, type, retryable)
  \/ Len(turns) = 1 /\ streamThrows(1)
  \/ \E scheduleOk \in BOOLEAN : Len(turns) = 1 /\ streamExhausted(1, scheduleOk)
  \/ Len(turns) = 1 /\ handleMessageResume(1)
  \/ \E i \in 1..MaxCalls, status \in {"success", "error", "cancelled"} :
        Len(turns) = 1 /\ onToolCallsUpdate(1, i, status)
  \/ \E throws \in BOOLEAN :
        Len(turns) = 1 /\ onAllToolCallsComplete(1, throws) /\ Len(turns') <= 1
  \/ stop

SpecOneTurn == Init /\ [][NextOneTurn]_vars

\* injectConversationHistory(text), up to its await (lines 554-559): the
\* agent is bootstrapped, so the early return of line 556 is not taken
injectConversationHistory ==
  /\ ~CompletionDue
  /\ historyPrefix < MaxInjections
  /\ historyPrefix' = historyPrefix + 1
  /\ historyUsedOnce' = FALSE
  /\ UNCHANGED <<guardVars, ctrls, abortController, turns, errorPending, streamReqs,
                 promptCount, history, callCount, stopMissed, utilVars>>

\* the callers of the agent: reloadContext() injecting the history, send()
\* and stop(), with the part of send() that follows handleAtCommand
NextHistory ==
  \/ injectConversationHistory
  \/ send
  \/ \E m \in 1..Len(turns), outcome \in {"proceed", "atError", "declined"},
        throws \in BOOLEAN : sendAfterAtCommand(m, outcome, throws)
  \/ stop

SpecHistory == Init /\ [][NextHistory]_vars

(***************************************************************************)
(* Claims about the agent, checked under Spec.                             *)
(***************************************************************************)
Turns == 1..Len(turns)

\* the sendMessageStream calls made for turn m after its first one
RetryReqs(m) ==
  {i \in 1..Len(streamReqs) : streamReqs[i].turn = m /\ streamReqs[i].retry > 0}

\* positions of turn m's events of the given type and data
EventsOf(m, type) == {i \in 1..Len(turns[m].events) : turns[m].events[i].type = type}

RetryNotices(m) ==
  {i \in EventsOf(m, "error") : turns[m].events[i].data = "retrying"}

\* turn m's handleMessage chain ran into its catch
Threw(m) == \E i \in EventsOf(m, "error") : turns[m].events[i].data = "thrown"

\* nothing of the agent is pending: no send() awaits, no stream is open, no
\* timer or scheduler promise is outstanding, every batch was reported
Quiescent ==
  \A m \in Turns :
    /\ turns[m].pc \in {"done", "failed"}
    /\ turns[m].batch # <<>> => turns[m].notified

\* C1: whatever invalid-stream signals the streams of a turn produce, the
\* agent requests at most MAX_INVALID_STREAM_RETRIES further streams for it,
\* retryCount never exceeds MAX_INVALID_STREAM_RETRIES, no retry is pending
\* once the budget is used, and a turn that ended ended with its finish event.
C1_RetryBudget ==
  \A m \in Turns :
    /\ turns[m].retryCount <= MAX_INVALID_STREAM_RETRIES
    /\ Cardinality(RetryReqs(m)) <= MAX_INVALID_STREAM_RETRIES
    /\ turns[m].pc = "retryDelay" => turns[m].retryCount < MAX_INVALID_STREAM_RETRIES
    /\ turns[m].pc = "done" => Cardinality(EventsOf(m, "finish")) = 1

\* reached: a turn whose stream yielded the invalid-stream signal on every
\* event it produced has ended with its finish event
C1_Witness ==
  \E m \in Turns :
    /\ turns[m].signalled
    /\ turns[m].emitted = MaxStreamLen
    /\ ~turns[m].invalidStreamDetected
    /\ EventsOf(m, "start") # {}
    /\ EventsOf(m, "content") \cup EventsOf(m, "error") \cup EventsOf(m, "finished") = {}
    /\ turns[m].toolCallRequests = <<>>
    /\ turns[m].pc = "done"
    /\ Cardinality(EventsOf(m, "finish")) = 1

\* C2: when the first stream of a turn signalled a retryable invalid stream
\* and the turn was not cancelled, then by the time the turn has ended the
\* agent has requested exactly one fresh stream for it, with the same
\* prompt id, the UI got exactly one retry notice, and one finish.
C2_AutoRetryHappens ==
  \A m \in Turns :
    (/\ turns[m].signalled
     /\ ~Aborted(m)
     /\ ~Threw(m)
     /\ turns[m].pc = "done") =>
       /\ Cardinality(RetryReqs(m)) >= 1
       /\ \A i \in RetryReqs(m) : streamReqs[i].prompt_id = turns[m].prompt_id
       /\ Cardinality(RetryNotices(m)) = Cardinality(RetryReqs(m))
       /\ Cardinality(EventsOf(m, "finish")) = 1

\* C3: no execution ends with an error event that no finish event follows:
\* when nothing of the agent is pending any more, the last error event given
\* to the UI has a finish event after it.
C3_ErrorFollowedByFinish ==
  Quiescent => ~errorPending

\* C4: after stop() aborted the signal of a turn whose stream was being
\* consumed, no content and no tool_group event is emitted for that turn,
\* and exactly one finish event follows.
C4_StopMidStream ==
  \A m \in Turns :
    turns[m].stoppedAt # -1 =>
      LET after == {i \in 1..Len(turns[m].events) : i > turns[m].stoppedAt}
      IN  /\ \A i \in after : turns[m].events[i].type \notin {"content", "tool_group"}
          /\ Cardinality(after \cap EventsOf(m, "finish")) <= 1
          /\ turns[m].pc = "done" => Cardinality(after \cap EventsOf(m, "finish")) = 1

\* C5: no sendMessageStream request is issued for a turn whose abort signal
\* is aborted: neither a retry of that turn nor a continuation built from
\* its tool batch.
C5_NoStreamAfterAbort ==
  \A i \in 1..Len(streamReqs) :
    ~streamReqs[i].aborted /\ ~streamReqs[i].originAborted

\* C6: at most one turn of the agent is in flight (stream being consumed, or
\* tool batch scheduled and not merged).
C6_SequentialTurns ==
  Cardinality({m \in Turns : InFlight(m)}) <= 1

\* C7: a stop() leaves no turn with a stream request or a schedule call in
\* flight whose abort signal is not aborted.
C7_StopCancelsActive ==
  stopMissed = {}

\* the continuation turns submitted for the batch of turn m
ContinuationsOf(m) == {n \in Turns : turns[n].isContinuation /\ turns[n].origin = m}

\* the batch of turn m was reported complete and its merged parts are not
\* empty: some call of it did not end cancelled
MergedNonEmpty(m) ==
  /\ turns[m].notified
  /\ \E i \in 1..Len(turns[m].batch) : turns[m].batch[i] # "cancelled"

\* the function responses of the batch of turn m, in batch order
BatchResponses(m) ==
  [i \in 1..Len(turns[m].toolCallRequests) |->
     [k |-> "fr", v |-> turns[m].toolCallRequests[i]]]

\* the turns that send() started and that reached submitQuery
NewPromptTurns == {m \in Turns : ~turns[m].isContinuation /\ turns[m].prompt_id # NoPrompt}

\* C22: a batch whose merged parts are not empty gets exactly one
\* continuation turn, which carries those parts under the prompt id of the
\* batch's turn and leaves the prompt counter alone (the counter counts the
\* new turns only); continuations are submitted for such batches only; and
\* two new turns never share a prompt id.
C22_ContinuationTagging ==
  /\ \A m \in Turns :
       MergedNonEmpty(m) =>
         /\ Cardinality(ContinuationsOf(m)) = 1
         /\ \A n \in ContinuationsOf(m) :
              /\ turns[n].prompt_id = turns[m].prompt_id
              /\ turns[n].query = BatchResponses(m)
              /\ turns[n].query # <<>>
  /\ \A n \in Turns :
       turns[n].isContinuation =>
         turns[n].origin \in Turns /\ MergedNonEmpty(turns[n].origin)
  /\ promptCount = Cardinality(NewPromptTurns)
  /\ \A m, n \in NewPromptTurns : m # n => turns[m].prompt_id # turns[n].prompt_id
  /\ \A i \in 1..Len(streamReqs) :
       /\ streamReqs[i].prompt_id = turns[streamReqs[i].turn].prompt_id
       /\ streamReqs[i].query = turns[streamReqs[i].turn].query

\* reached: the batch of the first turn was merged and its continuation is
\* streaming under the prompt id of the first turn
C22_Witness ==
  /\ Len(turns) = 2
  /\ MergedNonEmpty(1)
  /\ turns[2].isContinuation
  /\ turns[2].origin = 1
  /\ turns[2].pc = "streaming"
  /\ turns[2].prompt_id = turns[1].prompt_id
  /\ Len(turns[2].query) = 2
  /\ promptCount = 1

\* the positions in the events of turn m of those that carry its msg_id
OwnPositions(m) ==
  {i \in 1..Len(turns[m].events) : turns[m].events[i].msg_id = m}

\* turn m is over: its promise chain has ended and its batch, if any, was
\* reported complete
TurnOver(m) ==
  /\ turns[m].pc \in {"done", "failed"}
  /\ turns[m].batch # <<>> => turns[m].notified

\* submitQuery got the stream of turn m and started handleMessage on it
Started(m) == turns[m].prompt_id # NoPrompt /\ turns[m].pc # "failed"

\* C24: of a turn started by submitQuery, the events with its msg_id begin
\* with the one start, nothing with its msg_id follows the one finish, the
\* finish of a turn in which nothing was thrown carries the usage captured
\* from the stream, the tool_group updates of its batch lie after the start
\* and before the finish, and a turn that is over has its finish.
C24_EventFraming ==
  \A m \in Turns :
    Started(m) =>
      /\ Cardinality(EventsOf(m, "start") \cap OwnPositions(m)) = 1
      /\ Cardinality(EventsOf(m, "finish") \cap OwnPositions(m)) <= 1
      /\ \A i \in OwnPositions(m), j \in EventsOf(m, "start") : j <= i
      /\ \A i \in OwnPositions(m), j \in EventsOf(m, "finish") : i <= j
      /\ \A i \in EventsOf(m, "tool_group") :
           /\ \A j \in EventsOf(m, "start") : j < i
           /\ \A j \in EventsOf(m, "finish") : i < j
      /\ \A j \in EventsOf(m, "finish") :
           ~Threw(m) => turns[m].events[j].data = turns[m].usage
      /\ TurnOver(m) => EventsOf(m, "finish") # {}

\* the tool-call ids turn m collected from its stream
CollectedIds(m) == {turns[m].toolCallRequests[i] : i \in 1..Len(turns[m].toolCallRequests)}

\* the error events of turn m that its catch emitted
ThrownErrors(m) == {i \in EventsOf(m, "error") : turns[m].events[i].data = "thrown"}

\* the catch of turn m left the guard and the UI as claimed: no collected id
\* is protected, and the error event of the catch is directly followed by
\* the finish with empty usage, the last event of the turn
CaughtCleanly(m) ==
  /\ \A id \in CollectedIds(m) : ~isProtected(guard, id)
  /\ Cardinality(ThrownErrors(m)) = 1
  /\ \A i \in ThrownErrors(m) :
       /\ Len(turns[m].events) = i + 1
       /\ turns[m].events[i + 1] = Ev("finish", m, "none")
  /\ Cardinality(EventsOf(m, "finish")) = 1

\* C25 as stated: once a turn in which the stream or the scheduling threw
\* has ended, none of its collected ids is protected, the turn has emitted
\* exactly one error event, and one finish with empty usage follows it.
C25_ErrorDuringSending ==
  \A m \in Turns :
    (Threw(m) /\ turns[m].pc = "done") =>
      /\ CaughtCleanly(m)
      /\ Cardinality(EventsOf(m, "error")) = 1

\* C25 as amended: the catch emits exactly one error event for what was
\* thrown, whatever error events the stream itself yielded before.
C25_ErrorDuringSendingCaught ==
  \A m \in Turns :
    (Threw(m) /\ turns[m].pc = "done") => CaughtCleanly(m)

\* reached: the stream yielded an error event and a tool-call request, then
\* threw; the request was protected and is released
C25_Witness ==
  /\ Len(turns) = 1
  /\ Threw(1)
  /\ turns[1].pc = "done"
  /\ Len(turns[1].toolCallRequests) = 1
  /\ Cardinality(EventsOf(1, "error")) = 2
  /\ ~isProtected(guard, turns[1].toolCallRequests[1])

\* C27: scheduler.schedule is called at most once per stream pass, by a pass
\* whose stream is exhausted and that is not being retried, with all the
\* requests the pass collected, in stream order and at least one, each of
\* them protected in the guard when the call is made; a pass that ended
\* without a request, or that is retried, made no call.
C27_BatchSchedulingOrder ==
  \A m \in Turns :
    LET t == turns[m]
    IN  /\ \A i, j \in 1..Len(t.scheduleCalls) :
             i # j => t.scheduleCalls[i].retry # t.scheduleCalls[j].retry
        /\ \A i \in 1..Len(t.scheduleCalls) :
             LET call == t.scheduleCalls[i]
             IN  /\ call.reqs # <<>>
                 /\ call.allProtected
                 /\ call.retry = t.retryCount
                 /\ call.reqs = t.toolCallRequests
                 /\ \A a, b \in 1..Len(call.reqs) : a < b => call.reqs[a] < call.reqs[b]
                 /\ t.pc \in {"scheduling", "done"}
        /\ t.pc \in {"atCommand", "streaming", "retryDelay", "failed"} =>
             t.scheduleCalls = <<>>
        /\ t.toolCallRequests = <<>> => t.scheduleCalls = <<>>
        /\ (t.pc = "scheduling" \/ (t.pc = "done" /\ t.batch # <<>>)) =>
             Len(t.scheduleCalls) = 1

\* reached: a pass collected two requests and handed both to the scheduler
C27_Witness ==
  /\ Len(turns) = 1
  /\ turns[1].pc = "scheduling"
  /\ Len(turns[1].scheduleCalls) = 1
  /\ Len(turns[1].scheduleCalls[1].reqs) = 2
  /\ turns[1].scheduleCalls[1].allProtected
  /\ turns[1].emitted = 2

\* handleCompletedTools returned undefined for the batch of turn m: every
\* call of it ended cancelled
NothingToSubmit(m) ==
  /\ turns[m].notified
  /\ \A i \in 1..Len(turns[m].batch) : turns[m].batch[i] = "cancelled"

\* C29: when the merger returns undefined for a batch, onAllToolCallsComplete
\* submits no continuation and gives the UI no event: the events of the turn
\* end with what the scheduler reported, and no error event comes from the
\* completion handler.
C29_NothingToSubmitIsSilent ==
  \A m \in Turns :
    NothingToSubmit(m) =>
      /\ ContinuationsOf(m) = {}
      /\ \A i \in EventsOf(m, "error") : turns[m].events[i].data # "handleCompletedTools"

\* the batch of turn m was reported complete, its continuation (if any) was
\* submitted, and the turn itself finished without an error
FinishedWithoutError(m) ==
  /\ turns[m].batch # <<>>
  /\ turns[m].notified
  /\ turns[m].pc = "done"
  /\ EventsOf(m, "error") = {}

\* C30: once the scheduler reported the batch of a turn complete and the
\* turn finished without error, no callId of the batch is protected.
C30_ProtectionReleased ==
  \A m \in Turns :
    FinishedWithoutError(m) =>
      \A id \in CollectedIds(m) : ~isProtected(guard, id)

C18_CancellationDistinguished ==
  \A m \in Turns :
    (turns[m].sawUserCancelled /\ turns[m].status # "none") =>
      /\ turns[m].status = "UserCancelled"
      /\ turns[m].pc # "retryDelay"

(***************************************************************************)
(* SpecMerger: handleCompletedTools called once on a batch of the          *)
(* scheduler.  Call i of the batch carries parts tagged with i, so that    *)
(* the order of the merged parts is visible.                               *)
(***************************************************************************)
MergerToolNames == {"save_memory", "read_file"}

MergerStatuses == {"executing", "success", "error", "cancelled"}

PartsShapes == {"undefined", "object", "string", "array"}

\* response.responseParts of call i, by shape
ResponsePartsOf(shape, i) ==
  IF shape = "undefined" THEN [k |-> "undef"]
  ELSE IF shape = "object" THEN [k |-> "one", p |-> [k |-> "fr", v |-> i]]
  ELSE IF shape = "string" THEN [k |-> "one", p |-> [k |-> "str", v |-> i]]
  ELSE [k |-> "arr", ps |-> <<[k |-> "fr", v |-> i], [k |-> "str", v |-> i + 10]>>]

InitMerger ==
  /\ guard = NewToolCallGuard
  /\ guardTrace = <<>>
  /\ InitAgent
  /\ dispatch = Idle
  /\ processor = Idle
  /\ params = Idle
  /\ fallback = Idle
  /\ InitProc
  /\ \E n \in 0..MaxCompleted, hasClient \in BOOLEAN :
       \E names \in [1..n -> MergerToolNames], clients \in [1..n -> BOOLEAN],
          statuses \in [1..n -> MergerStatuses], shapes \in [1..n -> PartsShapes] :
         merger = [pc |-> "ready",
                   batch |-> [i \in 1..n |->
                                [callId |-> i, name |-> names[i],
                                 isClientInitiated |-> clients[i], status |-> statuses[i],
                                 responseParts |-> ResponsePartsOf(shapes[i], i)]],
                   hasClient |-> hasClient,
                   ret |-> "none", parts |-> <<>>, refresh |-> 0]

\* handleCompletedTools(batch, geminiClient, performMemoryRefresh) runs
mergeCompleted ==
  /\ merger.pc = "ready"
  /\ LET r == handleCompletedTools(merger.batch, merger.hasClient)
     IN  /\ merger' = [merger EXCEPT !.pc = "returned", !.ret = r.ret,
                                     !.parts = r.parts, !.refresh = r.refresh]
         /\ history' = history \o r.added
  /\ UNCHANGED <<guardVars, ctrls, abortController, turns, errorPending, streamReqs,
                 promptCount, callCount, stopMissed, prefixVars, dispatch, processor,
                 params, fallback, procVars>>

NextMerger == mergeCompleted

SpecMerger == InitMerger /\ [][NextMerger]_vars

(***************************************************************************)
(* Claims about the merger, checked under SpecMerger.                      *)
(***************************************************************************)
MergerReturned == merger.pc = "returned"

\* calls of the batch in a terminal state
TerminalCalls ==
  {i \in 1..Len(merger.batch) : merger.batch[i].status \in {"success", "error", "cancelled"}}

\* terminal calls that are not client-initiated
ModelFacingCalls == {i \in TerminalCalls : ~merger.batch[i].isClientInitiated}

PartsDefined(i) == merger.batch[i].responseParts.k # "undef"

\* what call i contributes to the flattening the claims speak of
Contribution(i) ==
  IF i \in ModelFacingCalls /\ PartsDefined(i)
    THEN IF merger.batch[i].responseParts.k = "arr"
           THEN merger.batch[i].responseParts.ps
           ELSE <<merger.batch[i].responseParts.p>>
    ELSE <<>>

RECURSIVE FlattenedUpTo(_)
FlattenedUpTo(n) == IF n = 0 THEN <<>> ELSE FlattenedUpTo(n - 1) \o Contribution(n)

\* C11: when every non-client-initiated terminal call of the batch is
\* cancelled (each with responseParts of some shape: one part, a string, an
\* array), handleCompletedTools returns undefined and has appended exactly
\* one user-role turn per such call to the history.
C11_AllCancelledHistory ==
  (/\ MergerReturned
   /\ merger.hasClient
   /\ ModelFacingCalls # {}
   /\ \A i \in ModelFacingCalls :
        merger.batch[i].status = "cancelled" /\ PartsDefined(i)) =>
     /\ merger.ret = "undefined"
     /\ merger.parts = <<>>
     /\ Len(history) = Cardinality(ModelFacingCalls)
     /\ \A j \in 1..Len(history) : history[j].role = "user"

\* C12 as stated: when at least one non-client-initiated terminal call is not
\* cancelled, handleCompletedTools returns the one-level flattening, in batch
\* order, of the responseParts of the terminal, non-client-initiated calls
\* whose responseParts is defined, strings unwrapped, and leaves the history
\* alone.
C12_MergerFlattening ==
  (/\ MergerReturned
   /\ \E i \in ModelFacingCalls : merger.batch[i].status # "cancelled") =>
     /\ merger.ret = "parts"
     /\ merger.parts = FlattenedUpTo(Len(merger.batch))
     /\ history = <<>>

\* C12 as amended: the same, when at least one non-client-initiated terminal
\* call whose responseParts is defined is not cancelled.
C12_MergerFlatteningOfReady ==
  (/\ MergerReturned
   /\ \E i \in ModelFacingCalls :
        PartsDefined(i) /\ merger.batch[i].status # "cancelled") =>
     /\ merger.ret = "parts"
     /\ merger.parts = FlattenedUpTo(Len(merger.batch))
     /\ history = <<>>

\* reached: a raw string of a successful call and the two parts of a
\* cancelled call's array were merged into three parts, the string first
C12_Witness ==
  /\ MergerReturned
  /\ Len(merger.batch) = 2
  /\ merger.batch[1].status = "success"
  /\ merger.batch[2].status = "cancelled"
  /\ merger.ret = "parts"
  /\ Len(merger.parts) = 3
  /\ merger.parts[1] = [k |-> "str", v |-> 1]
  /\ merger.parts[3] = [k |-> "str", v |-> 12]

\* C13 as stated: handleCompletedTools invokes the memory-refresh callback
\* exactly once when the batch holds at least one terminal, successful
\* save_memory call, on whichever return path, and never otherwise.
C13_RefreshOncePerBatch ==
  MergerReturned =>
    merger.refresh =
      IF \E i \in TerminalCalls :
           merger.batch[i].name = "save_memory" /\ merger.batch[i].status = "success"
        THEN 1 ELSE 0

\* C13 as amended: exactly once when the batch holds at least one successful
\* save_memory call whose responseParts is defined, and never otherwise.
C13_RefreshOncePerReadyBatch ==
  MergerReturned =>
    merger.refresh =
      IF \E i \in TerminalCalls :
           /\ merger.batch[i].name = "save_memory"
           /\ merger.batch[i].status = "success"
           /\ PartsDefined(i)
        THEN 1 ELSE 0

\* reached: a batch of two successful save_memory calls was merged with one
\* refresh
C13_Witness ==
  /\ MergerReturned
  /\ Len(merger.batch) = 2
  /\ \A i \in 1..2 :
       /\ merger.batch[i].name = "save_memory"
       /\ merger.batch[i].status = "success"
       /\ PartsDefined(i)
  /\ merger.refresh = 1

(***************************************************************************)
(* utils.ts: normalizeToolParams.  An argument object is a function from   *)
(* the keys it has to their values.  The operator yields the object        *)
(* returned (normalized) and the caller's object after the call (args):    *)
(* the code works on the spread copy { ...args }.                          *)
(***************************************************************************)
fileTools == {"ReadFileTool", "WriteFileTool", "EditTool", "read_file", "write_file", "edit"}

\* a rewrite that works on the caller's object instead of a copy
normalizeToolParams_InPlace(toolName, args) ==
  IF toolName \in fileTools /\ "path" \in DOMAIN args /\ "file_path" \notin DOMAIN args
    THEN LET normalized ==
               [k \in (DOMAIN args \ {"path"}) \cup {"file_path"} |->
                  IF k = "file_path" THEN args["path"] ELSE args[k]]
         IN  [normalized |-> normalized, args |-> normalized]
    ELSE [normalized |-> args, args |-> args]

normalizeToolParams(toolName, args) ==
  IF toolName \in fileTools /\ "path" \in DOMAIN args /\ "file_path" \notin DOMAIN args
    THEN [normalized |-> [k \in (DOMAIN args \ {"path"}) \cup {"file_path"} |->
                            IF k = "file_path" THEN args["path"] ELSE args[k]],
          args |-> args]
    ELSE [normalized |-> args, args |-> args]

(***************************************************************************)
(* SpecParams: normalizeToolParams applied to a tool name and an argument  *)
(* object, and then to its own result.                                     *)
(***************************************************************************)
ParamToolNames == fileTools \cup {"run_shell_command"}

ParamKeys == {"path", "file_path", "content"}

ParamValues == {"a", "b"}

ArgObjects == UNION {[S -> ParamValues] : S \in SUBSET ParamKeys}

InitParams ==
  /\ guard = NewToolCallGuard
  /\ guardTrace = <<>>
  /\ InitAgent
  /\ merger = Idle
  /\ dispatch = Idle
  /\ processor = Idle
  /\ fallback = Idle
  /\ InitProc
  /\ \E toolName \in ParamToolNames, args \in ArgObjects :
       params = [pc |-> "ready", toolName |-> toolName, input |-> args, args |-> args,
                 once |-> <<>>, twice |-> <<>>]

\* normalizeToolParams(toolName, args)
normalizeOnce ==
  /\ params.pc = "ready"
  /\ LET r == normalizeToolParams(params.toolName, params.args)
     IN  params' = [params EXCEPT !.pc = "once", !.once = r.normalized, !.args = r.args]
  /\ UNCHANGED <<guardVars, agentVars, merger, dispatch, processor, fallback, procVars>>

\* normalizeToolParams(toolName, result of the first call)
normalizeAgain ==
  /\ params.pc = "once"
  /\ LET r == normalizeToolParams(params.toolName, params.once)
     IN  params' = [params EXCEPT !.pc = "twice", !.twice = r.normalized, !.once = r.args]
  /\ UNCHANGED <<guardVars, agentVars, merger, dispatch, processor, fallback, procVars>>

NextParams ==
  \/ normalizeOnce
  \/ normalizeAgain

SpecParams == InitParams /\ [][NextParams]_vars

\* C19: normalizeToolParams is idempotent; for a file-operation tool and an
\* argument map with 'path' and without 'file_path' the result has
\* file_path = a.path and no 'path' key; in every other case the result
\* equals the input; the input map is never mutated.
C19_ParamAliasing ==
  /\ params.pc \in {"once", "twice"} =>
       /\ params.args = params.input
       /\ IF /\ params.toolName \in fileTools
             /\ "path" \in DOMAIN params.input
             /\ "file_path" \notin DOMAIN params.input
            THEN /\ "file_path" \in DOMAIN params.once
                 /\ params.once["file_path"] = params.input["path"]
                 /\ "path" \notin DOMAIN params.once
            ELSE params.once = params.input
  /\ params.pc = "twice" => params.twice = params.once

\* reached: normalizeToolParams('write_file', {path: 'a'}) gave
\* {file_path: 'a'} and was applied again to that
C19_Witness ==
  /\ params.pc = "twice"
  /\ params.toolName = "write_file"
  /\ params.input = [path |-> "a"]
  /\ params.once = [file_path |-> "a"]
  /\ params.twice = [file_path |-> "a"]

(***************************************************************************)
(* utils.ts: processGeminiFunctionCalls.  One call of the function is a    *)
(* process that is suspended at each await: of onProgress and of           *)
(* executeToolCall.  A call of the batch is [name, args, outcome], outcome *)
(* being what executeToolCall does for it: it throws, it resolves with a   *)
(* response that carries an error, or it resolves with responseParts of    *)
(* some shape.  callId is the position of the call in the batch.           *)
(***************************************************************************)
ExecOutcomes == {"throws", "error", "undefined", "object", "string", "array"}

\* a dispatcher that goes on with the next call after reporting an error
ReturnsAfterError_Continues(outcome) == FALSE

\* lines 109-118: the return that follows the tool_call_error report
ReturnsAfterError(outcome) == outcome = "error"

\* a collection that pushes raw strings as they are
CollectedParts_RawStrings(outcome, callId) ==
  LET rp == ResponsePartsOf(outcome, callId)
  IN  IF rp.k = "undef" THEN <<>> ELSE IF rp.k = "arr" THEN rp.ps ELSE <<rp.p>>

\* lines 126-135: the parts a response adds to toolResponseParts
CollectedParts(outcome, callId) ==
  LET rp == ResponsePartsOf(outcome, callId)
      parts == IF rp.k = "undef" THEN <<>> ELSE IF rp.k = "arr" THEN rp.ps ELSE <<rp.p>>
  IN  [i \in 1..Len(parts) |->
         IF parts[i].k = "str" THEN [k |-> "text", v |-> parts[i].v] ELSE parts[i]]

\* an onProgress call
Progress(type, callId, data) == [type |-> type, callId |-> callId, data |-> data]

InitDispatch ==
  /\ guard = NewToolCallGuard
  /\ guardTrace = <<>>
  /\ InitAgent
  /\ merger = Idle
  /\ processor = Idle
  /\ params = Idle
  /\ fallback = Idle
  /\ InitProc
  /\ \E n \in 0..MaxFunctionCalls :
       \E names \in [1..n -> {"write_file", "run_shell_command"}],
          outcomes \in [1..n -> ExecOutcomes] :
         dispatch = [pc |-> "loop",
                     functionCalls |-> [i \in 1..n |->
                        [name |-> names[i], args |-> [path |-> "a"], outcome |-> outcomes[i]]],
                     i |-> 1, progress |-> <<>>, executed |-> <<>>,
                     toolResponseParts |-> <<>>, settled |-> "pending"]

\* top of the for loop: the tool_call_request report of call i (lines 92-105),
\* or, after the last call, the closing tool_call_finish report with the
\* collected parts (lines 137-140), after which the function returns
dispatchRequest ==
  /\ dispatch.pc = "loop"
  /\ LET i == dispatch.i
     IN  IF i <= Len(dispatch.functionCalls)
           THEN LET fc == dispatch.functionCalls[i]
                    normalizedArgs == normalizeToolParams(fc.name, fc.args).normalized
                IN  dispatch' = [dispatch EXCEPT
                      !.pc = "execute",
                      !.progress = Append(@, Progress("tool_call_request", i, normalizedArgs))]
           ELSE dispatch' = [dispatch EXCEPT
                  !.pc = "done", !.settled = "resolved",
                  !.progress = Append(@, Progress("tool_call_finish", 0,
                                                  dispatch.toolResponseParts))]
  /\ UNCHANGED <<guardVars, agentVars, merger, processor, params, fallback, procVars>>

\* executeToolCall(config, requestInfo, signal) is invoked and settles
\* (line 108); nothing in the function catches its rejection
dispatchExecute ==
  /\ dispatch.pc = "execute"
  /\ LET i == dispatch.i
         executed == Append(dispatch.executed, i)
     IN  IF dispatch.functionCalls[i].outcome = "throws"
           THEN dispatch' = [dispatch EXCEPT !.pc = "done", !.settled = "rejected",
                                              !.executed = executed]
           ELSE dispatch' = [dispatch EXCEPT !.pc = "report", !.executed = executed]
  /\ UNCHANGED <<guardVars, agentVars, merger, processor, params, fallback, procVars>>

\* the report of call i's result: tool_call_error and the return (lines
\* 109-118), or tool_call_finish and the collection of its parts (119-135)
dispatchReport ==
  /\ dispatch.pc = "report"
  /\ LET i == dispatch.i
         outcome == dispatch.functionCalls[i].outcome
     IN  IF outcome = "error"
           THEN IF ReturnsAfterError(outcome)
                  THEN dispatch' = [dispatch EXCEPT
                         !.pc = "done", !.settled = "resolved",
                         !.progress = Append(@, Progress("tool_call_error", i, "error"))]
                  ELSE dispatch' = [dispatch EXCEPT
                         !.pc = "loop", !.i = i + 1,
                         !.progress = Append(@, Progress("tool_call_error", i, "error"))]
           ELSE dispatch' = [dispatch EXCEPT
                  !.pc = "loop", !.i = i + 1,
                  !.progress = Append(@, Progress("tool_call_finish", i, "success")),
                  !.toolResponseParts = @ \o CollectedParts(outcome, i)]
  /\ UNCHANGED <<guardVars, agentVars, merger, processor, params, fallback, procVars>>

NextDispatch ==
  \/ dispatchRequest
  \/ dispatchExecute
  \/ dispatchReport

SpecDispatch == InitDispatch /\ [][NextDispatch]_vars

(***************************************************************************)
(* Claims about the dispatcher, checked under SpecDispatch.                *)
(***************************************************************************)
\* positions of the progress events of the given type for call k
ProgressOf(type, k) ==
  {j \in 1..Len(dispatch.progress) :
     dispatch.progress[j].type = type /\ dispatch.progress[j].callId = k}

WasExecuted(k) == \E j \in 1..Len(dispatch.executed) : dispatch.executed[j] = k

\* C14: when the execution result of call k carries an error, a
\* tool_call_error is reported for k, the function returns at once (that
\* report is its last), and for no later call is the execution primitive
\* invoked or a tool_call_request reported.
C14_DispatchFailFast ==
  \A k \in 1..Len(dispatch.functionCalls) :
    (dispatch.functionCalls[k].outcome = "error" /\ WasExecuted(k)) =>
      /\ \A j \in (k + 1)..Len(dispatch.functionCalls) :
           ~WasExecuted(j) /\ ProgressOf("tool_call_request", j) = {}
      /\ dispatch.pc # "report" =>
           /\ dispatch.settled = "resolved"
           /\ ProgressOf("tool_call_error", k) = {Len(dispatch.progress)}

\* reached: the first call of a batch of two reported an error and the
\* function returned
C14_Witness ==
  /\ Len(dispatch.functionCalls) = 2
  /\ dispatch.functionCalls[1].outcome = "error"
  /\ ProgressOf("tool_call_error", 1) # {}
  /\ dispatch.settled = "resolved"

\* C15: when the execution primitive throws for call k, the returned promise
\* does not reject, a tool_call_error is reported for k by the time the
\* function has returned, and the primitive is invoked for no later call.
C15_DispatchNeverThrows ==
  /\ dispatch.settled # "rejected"
  /\ \A k \in 1..Len(dispatch.functionCalls) :
       (dispatch.functionCalls[k].outcome = "throws" /\ WasExecuted(k)) =>
         /\ \A j \in (k + 1)..Len(dispatch.functionCalls) : ~WasExecuted(j)
         /\ dispatch.settled = "resolved" => ProgressOf("tool_call_error", k) # {}

\* the parts call k hands to the model: its function response as it is, its
\* raw strings as text parts
ExpectedPartsOf(k) ==
  LET shape == dispatch.functionCalls[k].outcome
  IN  IF shape = "object" THEN <<[k |-> "fr", v |-> k]>>
      ELSE IF shape = "string" THEN <<[k |-> "text", v |-> k]>>
      ELSE IF shape = "array" THEN <<[k |-> "fr", v |-> k], [k |-> "text", v |-> k + 10]>>
      ELSE <<>>

RECURSIVE ExpectedAggregate(_)
\* the parts of calls 1..n in call order
ExpectedAggregate(n) ==
  IF n = 0 THEN <<>> ELSE ExpectedAggregate(n - 1) \o ExpectedPartsOf(n)

\* positions of the closing report, the tool_call_finish with the parts
AggregatedFinish ==
  {j \in 1..Len(dispatch.progress) :
     dispatch.progress[j].type = "tool_call_finish" /\ dispatch.progress[j].callId = 0}

CallFailed(k) == dispatch.functionCalls[k].outcome \in {"throws", "error"}

\* C28: the tool_call_request of a call is reported only after the
\* tool_call_finish of the call before it; when no call fails the function
\* ends with one closing tool_call_finish that carries the parts of all
\* calls in call order, raw strings wrapped as text parts; and no closing
\* tool_call_finish is reported once a call has failed.
C28_DispatchProgressProtocol ==
  /\ \A k \in 2..Len(dispatch.functionCalls) :
       \A j \in ProgressOf("tool_call_request", k) :
         \E f \in ProgressOf("tool_call_finish", k - 1) : f < j
  /\ \A k \in 1..Len(dispatch.functionCalls) :
       Cardinality(ProgressOf("tool_call_request", k)) <= 1
  /\ (dispatch.pc = "done" /\ \A k \in 1..Len(dispatch.functionCalls) : ~CallFailed(k)) =>
       /\ dispatch.settled = "resolved"
       /\ AggregatedFinish = {Len(dispatch.progress)}
       /\ dispatch.progress[Len(dispatch.progress)].data =
            ExpectedAggregate(Len(dispatch.functionCalls))
  /\ (\E k \in 1..Len(dispatch.functionCalls) : CallFailed(k) /\ WasExecuted(k)) =>
       AggregatedFinish = {}

\* reached: two calls succeeded, one answering a raw string and one an
\* array, and the closing report carries their three parts
C28_Witness ==
  /\ dispatch.pc = "done"
  /\ Len(dispatch.functionCalls) = 2
  /\ dispatch.functionCalls[1].outcome = "string"
  /\ dispatch.functionCalls[2].outcome = "array"
  /\ AggregatedFinish # {}
  /\ Len(dispatch.progress[Len(dispatch.progress)].data) = 3

(***************************************************************************)
(* SpecProcessor: processGeminiStreamEvents consuming one finite stream    *)
(* with a sink that records its invocations (idx: the position in the      *)
(* stream of the event it was invoked for).                                *)
(***************************************************************************)
RECURSIVE Streams(_)
\* the streams of exactly n events
Streams(n) ==
  IF n = 0 THEN {<<>>}
  ELSE {Append(st, type) : st \in Streams(n - 1), type \in StreamEventTypes}

InitProcessor ==
  /\ guard = NewToolCallGuard
  /\ guardTrace = <<>>
  /\ InitAgent
  /\ merger = Idle
  /\ dispatch = Idle
  /\ params = Idle
  /\ fallback = Idle
  /\ InitProc
  /\ \E n \in 0..MaxEvents : \E stream \in Streams(n) :
       processor = [pc |-> "iterating", stream |-> stream, i |-> 0, sink |-> <<>>,
                    capturedUsageMetadata |-> "none", status |-> "none", resolutions |-> 0]

\* one iteration of the for-await loop (lines 20-65)
processNext ==
  /\ processor.pc = "iterating"
  /\ processor.i < Len(processor.stream)
  /\ LET i == processor.i + 1
         type == processor.stream[i]
     IN  processor' = [processor EXCEPT
           !.i = i,
           !.sink = IF SinkInvoked(type)
                      THEN Append(@, [type |-> type, data |-> SinkData(type), idx |-> i])
                      ELSE @,
           !.capturedUsageMetadata = CapturedUsage(@, type),
           !.pc = IF IterationGoesOn(type) THEN "iterating" ELSE "leaving"]
  /\ UNCHANGED <<guardVars, agentVars, merger, dispatch, params, fallback, procVars>>

\* the loop is over: the return of line 66
processReturn ==
  /\ \/ processor.pc = "iterating" /\ processor.i = Len(processor.stream)
     \/ processor.pc = "leaving"
  /\ processor' = [processor EXCEPT
       !.pc = "returned",
       !.status = ReturnedStatus(\E j \in 1..processor.i :
                                  processor.stream[j] = "user_cancelled"),
       !.resolutions = @ + 1]
  /\ UNCHANGED <<guardVars, agentVars, merger, dispatch, params, fallback, procVars>>

NextProcessor ==
  \/ processNext
  \/ processReturn

SpecProcessor == InitProcessor /\ [][NextProcessor]_vars

(***************************************************************************)
(* Claims about the stream processor, checked under SpecProcessor.         *)
(***************************************************************************)
\* the event types the claims call forwardable
Forwardable == {"thought", "content", "tool_call_request", "error", "finished"}

\* positions of the stream the sink was invoked for
Delivered == {processor.sink[a].idx : a \in 1..Len(processor.sink)}

\* C16: processGeminiStreamEvents resolves exactly once and only after the
\* stream is exhausted; an Error event does not end the iteration: every
\* forwardable event after an Error event has been delivered to the sink
\* when the function resolves.
C16_NeverEndsEarly ==
  /\ processor.resolutions <= 1
  /\ processor.resolutions = 1 <=> processor.pc = "returned"
  /\ processor.pc = "returned" =>
       /\ processor.i = Len(processor.stream)
       /\ \A j \in 1..Len(processor.stream) :
            (/\ processor.stream[j] \in Forwardable
             /\ \E k \in 1..(j - 1) : processor.stream[k] = "error") => j \in Delivered

\* reached: the function resolved on a stream with an Error event in the
\* middle, the content after it delivered
C16_Witness ==
  /\ processor.pc = "returned"
  /\ Len(processor.stream) = 3
  /\ processor.stream[2] = "error"
  /\ processor.stream[3] = "content"
  /\ 3 \in Delivered

\* C17: at every point the sink invocations are exactly the consumed stream
\* events of type Thought, Content, ToolCallRequest, Error or Finished, one
\* invocation each, in stream order; events of the swallowed types and of
\* unlisted types cause no invocation, and the processor does not throw.
C17_EventClassification ==
  /\ Delivered = {j \in 1..processor.i : processor.stream[j] \in Forwardable}
  /\ Len(processor.sink) = Cardinality(Delivered)
  /\ \A a \in 1..Len(processor.sink) :
       /\ processor.sink[a].type = processor.stream[processor.sink[a].idx]
       /\ \A b \in 1..(a - 1) : processor.sink[b].idx < processor.sink[a].idx
  /\ processor.pc \in {"iterating", "returned"}

\* reached: a stream of a swallowed event, an event of an unlisted type and
\* a content event was consumed with one sink invocation, for the content
C17_Witness ==
  /\ processor.pc = "returned"
  /\ processor.stream = <<"loop_detected", "retry", "content">>
  /\ Delivered = {3}

(***************************************************************************)
(* cli/config.ts: fallbackModelHandler.  The handler has no await, so one  *)
(* invocation is one step.  What it finds is given by four answers:        *)
(* getCurrentGeminiAgent() ("null" or "agent"), agent.getApiKeyManager()   *)
(* ("null" or "manager"), apiKeyManager.hasMultipleKeys() and              *)
(* apiKeyManager.rotateKey() ("true", "false" or "throws").                *)
(***************************************************************************)
KeyAnswers == {"true", "false", "throws"}

\* a handler whose catch gives up instead of retrying
fallbackModelHandler_StopsOnError(agent, apiKeyManager, hasMultipleKeys, rotateKey) ==
  IF agent = "null" \/ apiKeyManager = "null"
    THEN [intent |-> "retry_once", rotated |-> FALSE, caught |-> FALSE]
  ELSE IF hasMultipleKeys = "throws"
    THEN [intent |-> "stop", rotated |-> FALSE, caught |-> TRUE]
  ELSE IF hasMultipleKeys = "false"
    THEN [intent |-> "retry_once", rotated |-> FALSE, caught |-> FALSE]
  ELSE IF rotateKey = "throws"
    THEN [intent |-> "stop", rotated |-> TRUE, caught |-> TRUE]
  ELSE IF rotateKey = "true"
    THEN [intent |-> "retry_once", rotated |-> TRUE, caught |-> FALSE]
  ELSE [intent |-> "stop", rotated |-> TRUE, caught |-> FALSE]

\* the intent returned, whether rotateKey() was invoked, and whether the
\* catch of lines 248-251 ran
fallbackModelHandler(agent, apiKeyManager, hasMultipleKeys, rotateKey) ==
  IF agent = "null" \/ apiKeyManager = "null"
    THEN [intent |-> "retry_once", rotated |-> FALSE, caught |-> FALSE]
  ELSE IF hasMultipleKeys = "throws"
    THEN [intent |-> "retry_once", rotated |-> FALSE, caught |-> TRUE]
  ELSE IF hasMultipleKeys = "false"
    THEN [intent |-> "retry_once", rotated |-> FALSE, caught |-> FALSE]
  ELSE IF rotateKey = "throws"
    THEN [intent |-> "retry_once", rotated |-> TRUE, caught |-> TRUE]
  ELSE IF rotateKey = "true"
    THEN [intent |-> "retry_once", rotated |-> TRUE, caught |-> FALSE]
  ELSE [intent |-> "stop", rotated |-> TRUE, caught |-> FALSE]

InitFallback ==
  /\ guard = NewToolCallGuard
  /\ guardTrace = <<>>
  /\ InitAgent
  /\ merger = Idle
  /\ dispatch = Idle
  /\ processor = Idle
  /\ params = Idle
  /\ InitProc
  /\ fallback = [pc |-> "registered", invocations |-> 0, rotateCalls |-> 0,
                 agent |-> "null", apiKeyManager |-> "null",
                 hasMultipleKeys |-> "false", rotateKey |-> "false",
                 intent |-> "none", rotated |-> FALSE, caught |-> FALSE]

\* the core library invokes the handler
invokeFallbackModelHandler(agent, apiKeyManager, hasMultipleKeys, rotateKey) ==
  /\ fallback.pc \in {"registered", "returned"}
  /\ fallback.invocations < MaxFallbacks
  /\ LET r == fallbackModelHandler(agent, apiKeyManager, hasMultipleKeys, rotateKey)
     IN  fallback' = [pc |-> "returned",
                      invocations |-> fallback.invocations + 1,
                      rotateCalls |-> fallback.rotateCalls + (IF r.rotated THEN 1 ELSE 0),
                      agent |-> agent, apiKeyManager |-> apiKeyManager,
                      hasMultipleKeys |-> hasMultipleKeys, rotateKey |-> rotateKey,
                      intent |-> r.intent, rotated |-> r.rotated, caught |-> r.caught]
  /\ UNCHANGED <<guardVars, agentVars, merger, dispatch, processor, params, procVars>>

NextFallback ==
  \E agent \in {"null", "agent"}, apiKeyManager \in {"null", "manager"},
     hasMultipleKeys \in KeyAnswers, rotateKey \in KeyAnswers :
    invokeFallbackModelHandler(agent, apiKeyManager, hasMultipleKeys, rotateKey)

SpecFallback == InitFallback /\ [][NextFallback]_vars

\* a key manager is there and says it has several keys
MultiKeyActive ==
  /\ fallback.agent = "agent"
  /\ fallback.apiKeyManager = "manager"
  /\ fallback.hasMultipleKeys = "true"

\* a key manager is there and one of the two calls made on it throws
ManagerThrows ==
  /\ fallback.agent = "agent"
  /\ fallback.apiKeyManager = "manager"
  /\ \/ fallback.hasMultipleKeys = "throws"
     \/ fallback.hasMultipleKeys = "true" /\ fallback.rotateKey = "throws"

\* C20: every invocation of the handler returns a decision; it is
\* 'retry_once', with no rotation, when no multi-key manager with several
\* keys is active; 'retry_once' when rotateKey() reports more keys; 'stop'
\* exactly when a multi-key manager is active and rotateKey() reports
\* exhaustion; 'retry_once' when something inside the handler throws.
C20_FallbackPolicy ==
  fallback.pc = "returned" =>
    /\ fallback.intent \in {"retry_once", "stop"}
    /\ (~MultiKeyActive /\ ~ManagerThrows) =>
         fallback.intent = "retry_once" /\ ~fallback.rotated
    /\ (MultiKeyActive /\ fallback.rotateKey = "true") =>
         fallback.intent = "retry_once" /\ fallback.rotated
    /\ fallback.intent = "stop" <=> (MultiKeyActive /\ fallback.rotateKey = "false")
    /\ ManagerThrows => fallback.intent = "retry_once"

\* reached: after an invocation that rotated to a further key, an invocation
\* in which rotateKey() threw was answered with retry_once
C20_Witness ==
  /\ fallback.pc = "returned"
  /\ fallback.invocations >= 2
  /\ fallback.rotateCalls >= 2
  /\ MultiKeyActive
  /\ fallback.rotateKey = "throws"
  /\ fallback.caught
  /\ fallback.intent = "retry_once"

(***************************************************************************)
(* process/WorkerManage.ts: the registry of agent tasks.  workerManage     *)
(* holds taskList (entries [id, task], a task being its index in tasks),   *)
(* tasks (every task object made so far, with its type and whether kill()  *)
(* was called on it), lookups (per conversation id, the calls of           *)
(* getTaskByIdRollbackBuild awaiting ProcessChat.get) and ret (what the    *)
(* last call returned: a task, 0 for null/undefined, -1 for a rejection).  *)
(***************************************************************************)
ConversationIds == 1..MaxConversations

ConversationTypes == {"gemini", "acp", "codex", "unknown"}

RECURSIVE findIndex(_, _, _)
\* taskList.findIndex(item => item.id === id), from position i; 0 for -1
findIndex(list, id, i) ==
  IF i > Len(list) THEN 0
  ELSE IF list[i].id = id THEN i
  ELSE findIndex(list, id, i + 1)

\* getTaskById: 0 for undefined
getTaskById(list, id) ==
  LET i == findIndex(list, id, 1) IN IF i = 0 THEN 0 ELSE list[i].task

\* buildConversation(conversation): the registry after the call
buildConversation(w, id, type) ==
  LET task == getTaskById(w.taskList, id)
      made == Len(w.tasks) + 1
  IN  IF task # 0 THEN [w EXCEPT !.ret = task]
      ELSE IF type \in {"gemini", "acp", "codex"}
        THEN [w EXCEPT !.tasks = Append(@, [type |-> type, killed |-> FALSE]),
                       !.taskList = Append(@, [id |-> id, task |-> made]),
                       !.ret = made]
      ELSE [w EXCEPT !.ret = 0]

\* the list without its i-th entry: taskList.splice(i, 1)
splice(list, i) ==
  [k \in 1..(Len(list) - 1) |-> IF k < i THEN list[k] ELSE list[k + 1]]

InitWorkerManage ==
  /\ guard = NewToolCallGuard
  /\ guardTrace = <<>>
  /\ InitAgent
  /\ merger = Idle
  /\ dispatch = Idle
  /\ processor = Idle
  /\ params = Idle
  /\ fallback = Idle
  /\ agentManager = Idle
  /\ workerManage = [pc |-> "run", taskList |-> <<>>, tasks |-> <<>>,
                     lookups |-> [id \in ConversationIds |-> 0], ret |-> 0]

WorkerManageFrame ==
  UNCHANGED <<guardVars, agentVars, merger, dispatch, processor, params, fallback,
              agentManager>>

callBuildConversation(id, type) ==
  /\ workerManage.pc = "run"
  /\ workerManage' = buildConversation(workerManage, id, type)
  /\ Len(workerManage'.tasks) <= MaxTasks
  /\ WorkerManageFrame

\* getTaskByIdRollbackBuild(id) up to its await: the registry, then the
\* database, then the request to the file storage.  dbHas: the database has
\* the conversation (of the given type).
getTaskByIdRollbackBuild(id, dbHas, type) ==
  /\ workerManage.pc = "run"
  /\ LET task == getTaskById(workerManage.taskList, id)
     IN  IF task # 0
           THEN workerManage' = [workerManage EXCEPT !.ret = task]
         ELSE IF dbHas
           THEN workerManage' = buildConversation(workerManage, id, type)
         ELSE /\ workerManage.lookups[id] < MaxLookups
              /\ workerManage' = [workerManage EXCEPT !.lookups[id] = @ + 1]
  /\ Len(workerManage'.tasks) <= MaxTasks
  /\ WorkerManageFrame

\* getTaskByIdRollbackBuild(id) after ProcessChat.get('chat.history')
\* resolved.  fileHas: the list holds the conversation.
rollbackBuildResume(id, fileHas, type) ==
  /\ workerManage.pc = "run"
  /\ workerManage.lookups[id] > 0
  /\ LET w == [workerManage EXCEPT !.lookups[id] = @ - 1]
     IN  workerManage' = IF fileHas THEN buildConversation(w, id, type)
                         ELSE [w EXCEPT !.ret = -1]
  /\ Len(workerManage'.tasks) <= MaxTasks
  /\ WorkerManageFrame

kill(id) ==
  /\ workerManage.pc = "run"
  /\ LET index == findIndex(workerManage.taskList, id, 1)
     IN  workerManage' =
           IF index = 0 THEN [workerManage EXCEPT !.ret = 0]
           ELSE [workerManage EXCEPT
                   !.tasks[workerManage.taskList[index].task].killed = TRUE,
                   !.taskList = splice(@, index),
                   !.ret = 0]
  /\ WorkerManageFrame

clearTasks ==
  /\ workerManage.pc = "run"
  /\ workerManage' =
       [workerManage EXCEPT
          !.tasks = [t \in 1..Len(workerManage.tasks) |->
                       IF \E i \in 1..Len(workerManage.taskList) :
                            workerManage.taskList[i].task = t
                         THEN [workerManage.tasks[t] EXCEPT !.killed = TRUE]
                         ELSE workerManage.tasks[t]],
          !.taskList = <<>>,
          !.ret = 0]
  /\ WorkerManageFrame

\* addTask(id, task) with a task object the caller made: task is an object
\* already known (1..Len(tasks)) or a new one (Len(tasks) + 1)
addTask(id, task, type) ==
  /\ workerManage.pc = "run"
  /\ task \in 1..(Len(workerManage.tasks) + 1)
  /\ task <= MaxTasks
  /\ task <= Len(workerManage.tasks) => type = workerManage.tasks[task].type
  /\ type # "unknown"
  /\ LET w == IF task > Len(workerManage.tasks)
                THEN [workerManage EXCEPT
                        !.tasks = Append(@, [type |-> type, killed |-> FALSE])]
                ELSE workerManage
         existing == findIndex(w.taskList, id, 1)
     IN  workerManage' =
           IF existing # 0
             THEN [w EXCEPT !.taskList[existing].task = task, !.ret = 0]
           ELSE [w EXCEPT !.taskList = Append(@, [id |-> id, task |-> task]), !.ret = 0]
  /\ WorkerManageFrame

NextWorkerManage ==
  \/ \E id \in ConversationIds, type \in ConversationTypes : callBuildConversation(id, type)
  \/ \E id \in ConversationIds, dbHas \in BOOLEAN, type \in ConversationTypes :
        getTaskByIdRollbackBuild(id, dbHas, type)
  \/ \E id \in ConversationIds, fileHas \in BOOLEAN, type \in ConversationTypes :
        rollbackBuildResume(id, fileHas, type)
  \/ \E id \in ConversationIds : kill(id)
  \/ clearTasks
  \/ \E id \in ConversationIds, task \in 1..MaxTasks, type \in ConversationTypes :
        addTask(id, task, type)

SpecWorkerManage == InitWorkerManage /\ [][NextWorkerManage]_vars

\* the tasks the registry holds
Registered == {workerManage.taskList[i].task : i \in 1..Len(workerManage.taskList)}

\* C26: the registry never holds two entries for one conversation id, and
\* every task that is no longer in the registry has been killed.
C26_OneAgentPerConversation ==
  workerManage.pc = "run" =>
    /\ \A i, j \in 1..Len(workerManage.taskList) :
         i # j => workerManage.taskList[i].id # workerManage.taskList[j].id
    /\ \A t \in 1..Len(workerManage.tasks) :
         t \notin Registered => workerManage.tasks[t].killed

(***************************************************************************)
(* process/task/GeminiAgentManager.ts: the 'gemini.message' handler that   *)
(* init() installs, and confirmMessage.  agentManager holds yoloMode and   *)
(* status, the worker's tool calls (tools[c] is the display status of call *)
(* c), the messages of the worker not handled yet (inbox), the messages    *)
(* posted to the worker and not taken yet (posted, each [callId, payload]),*)
(* every post ever made (sent), the calls seen Confirming by the YOLO      *)
(* interception (observed), the messages persisted and the events given to *)
(* the UI (relayed), and the confirmMessage calls made (confirms).  The    *)
(* payload "approval" is {confirm: true, approvalType: 'allow_always'}.    *)
(***************************************************************************)
ConfirmKeys == {"proceed_once", "cancel"}

ToolGroup(tools) == [type |-> "tool_group", data |-> tools]

Plain(type) == [type |-> type, data |-> <<>>]

RECURSIVE findConfirming(_, _)
\* toolData.find(t => t.status === 'Confirming'), from position i; 0: none
findConfirming(toolData, i) ==
  IF i > Len(toolData) THEN 0
  ELSE IF toolData[i] = "Confirming" THEN i
  ELSE findConfirming(toolData, i + 1)

\* an interception that approves and then still lets the message through
onGeminiMessage_RelaysConfirming(a, data) ==
  LET confirmingTool == IF a.yoloMode /\ data.type = "tool_group"
                          THEN findConfirming(data.data, 1) ELSE 0
      b == IF confirmingTool # 0
             THEN [a EXCEPT
                     !.posted = Append(@, [callId |-> confirmingTool, payload |-> "approval"]),
                     !.sent = @ \cup {[callId |-> confirmingTool, payload |-> "approval"]},
                     !.observed = @ \cup {c \in 1..Len(data.data) : data.data[c] = "Confirming"}]
             ELSE a
  IN  [b EXCEPT
         !.status = IF data.type = "finish" THEN "finished"
                    ELSE IF data.type \in {"start", "thought"} THEN "running"
                    ELSE @,
         !.persisted = IF data.type # "thought" THEN @ \cup {data} ELSE @,
         !.relayed = @ \cup {data}]

\* the 'gemini.message' handler (lines 203-242): the manager after data
onGeminiMessage(a, data) ==
  LET confirmingTool == IF a.yoloMode /\ data.type = "tool_group"
                          THEN findConfirming(data.data, 1) ELSE 0
  IN  IF confirmingTool # 0
        THEN [a EXCEPT
                !.posted = Append(@, [callId |-> confirmingTool, payload |-> "approval"]),
                !.sent = @ \cup {[callId |-> confirmingTool, payload |-> "approval"]},
                !.observed = @ \cup {c \in 1..Len(data.data) : data.data[c] = "Confirming"}]
      ELSE [a EXCEPT
              !.status = IF data.type = "finish" THEN "finished"
                         ELSE IF data.type \in {"start", "thought"} THEN "running"
                         ELSE @,
              !.persisted = IF data.type # "thought" THEN @ \cup {data} ELSE @,
              !.relayed = @ \cup {data}]

\* confirmMessage (lines 246-268): what is posted to data.callId
confirmMessagePayload(yoloMode, confirmKey) ==
  IF yoloMode THEN "approval" ELSE confirmKey

\* the tool calls a batch starts with: each waits for a confirmation or runs
InitialTools ==
  UNION {[1..n -> {"Confirming", "Executing"}] : n \in 1..MaxTools}

InitAgentManager ==
  /\ guard = NewToolCallGuard
  /\ guardTrace = <<>>
  /\ InitAgent
  /\ merger = Idle
  /\ dispatch = Idle
  /\ processor = Idle
  /\ params = Idle
  /\ fallback = Idle
  /\ workerManage = Idle
  /\ \E yoloMode \in BOOLEAN, tools \in InitialTools :
       agentManager = [pc |-> "run", yoloMode |-> yoloMode, status |-> "pending",
                       tools |-> tools,
                       inbox |-> <<Plain("start"), ToolGroup(tools)>>,
                       posted |-> <<>>, sent |-> {}, observed |-> {},
                       persisted |-> {}, relayed |-> {}, confirms |-> 0]

AgentManagerFrame ==
  UNCHANGED <<guardVars, agentVars, merger, dispatch, processor, params, fallback,
              workerManage>>

\* the manager handles the worker's oldest message
managerReceive ==
  /\ agentManager.pc = "run"
  /\ agentManager.inbox # <<>>
  /\ agentManager' = onGeminiMessage([agentManager EXCEPT !.inbox = Tail(@)],
                                     Head(agentManager.inbox))
  /\ AgentManagerFrame

\* the UI calls confirmMessage for a call it shows
confirmMessage(callId, confirmKey) ==
  /\ agentManager.pc = "run"
  /\ agentManager.confirms < MaxConfirms
  /\ callId \in 1..Len(agentManager.tools)
  /\ LET post == [callId |-> callId,
                  payload |-> confirmMessagePayload(agentManager.yoloMode, confirmKey)]
     IN  agentManager' = [agentManager EXCEPT
                            !.confirms = @ + 1,
                            !.relayed = @ \cup {Plain("start")},
                            !.posted = Append(@, post),
                            !.sent = @ \cup {post}]
  /\ AgentManagerFrame

\* what the worker tells the manager after its tools changed to tools: the
\* tool_group update, and the end of the turn once no call is left
WorkerUpdate(tools) ==
  <<ToolGroup(tools)>> \o
    (IF \A c \in 1..Len(tools) : tools[c] \in {"Success", "Canceled"}
       THEN <<Plain("thought"), Plain("finish")>> ELSE <<>>)

\* the worker takes the oldest post and relays the decision to the
\* scheduler, which moves a call that waits for it and reports the update
workerReceive ==
  /\ agentManager.pc = "run"
  /\ agentManager.posted # <<>>
  /\ LET post == Head(agentManager.posted)
         tools == IF agentManager.tools[post.callId] = "Confirming"
                    THEN [agentManager.tools EXCEPT
                            ![post.callId] = IF post.payload = "cancel"
                                               THEN "Canceled" ELSE "Executing"]
                    ELSE agentManager.tools
     IN  agentManager' = [agentManager EXCEPT
                            !.posted = Tail(@),
                            !.tools = tools,
                            !.inbox = IF tools # agentManager.tools
                                        THEN @ \o WorkerUpdate(tools) ELSE @]
  /\ AgentManagerFrame

\* a running call of the worker ends and the scheduler reports the update
workerToolEnds(c) ==
  /\ agentManager.pc = "run"
  /\ c \in 1..Len(agentManager.tools)
  /\ agentManager.tools[c] = "Executing"
  /\ LET tools == [agentManager.tools EXCEPT ![c] = "Success"]
     IN  agentManager' = [agentManager EXCEPT
                            !.tools = tools,
                            !.inbox = @ \o WorkerUpdate(tools)]
  /\ AgentManagerFrame

NextAgentManager ==
  \/ managerReceive
  \/ \E callId \in 1..MaxTools, confirmKey \in ConfirmKeys : confirmMessage(callId, confirmKey)
  \/ workerReceive
  \/ \E c \in 1..MaxTools : workerToolEnds(c)

\* every message between the two processes is delivered in the end
SpecAgentManager ==
  /\ InitAgentManager
  /\ [][NextAgentManager]_vars
  /\ WF_vars(managerReceive)
  /\ WF_vars(workerReceive)

YoloMode == agentManager.pc = "run" /\ agentManager.yoloMode

HasConfirming(data) ==
  data.type = "tool_group" /\ \E c \in 1..Len(data.data) : data.data[c] = "Confirming"

ApprovalSent(c) == [callId |-> c, payload |-> "approval"] \in agentManager.sent

\* C23: in YOLO mode every post to the worker is the allow_always approval,
\* no tool_group message that holds a Confirming tool is persisted or
\* relayed to the UI, and every tool seen Confirming in a tool_group message
\* is eventually sent the approval.
C23_YoloAutoApproval ==
  /\ [](YoloMode =>
          /\ \A post \in agentManager.sent : post.payload = "approval"
          /\ \A data \in agentManager.persisted \cup agentManager.relayed :
               ~HasConfirming(data))
  /\ \A c \in 1..MaxTools :
       (YoloMode /\ c \in agentManager.observed) ~> (YoloMode /\ ApprovalSent(c))

\* reached: in YOLO mode two tools were seen Confirming in one message, both
\* were approved by the interception and ran to their end
C23_Witness ==
  /\ YoloMode
  /\ agentManager.observed = {1, 2}
  /\ ApprovalSent(1)
  /\ ApprovalSent(2)
  /\ agentManager.confirms = 0
  /\ agentManager.tools = <<"Success", "Success">>
  /\ agentManager.inbox = <<>>
  /\ agentManager.status = "finished"
====
